---- MODULE Spec2Model ----
(***************************************************************************)
(* A model of nano_graphrag/graphrag.py: the GraphRAG orchestrator.        *)
(*                                                                         *)
(* Tasks are asyncio tasks on one event loop.  A task runs one entry point *)
(* (ainsert, aquery, or a direct call of one of the three wrapped          *)
(* functions) and every step of the model is one stretch of code between   *)
(* two suspension points.  The collaborators imported from ._utils, ._ops  *)
(* and .storage (limit_async_func_call, generate_id,                       *)
(* chunking_by_token_size, the two storage classes) are modelled by their  *)
(* contract in spec.md sections 4.1, 4.2 and 6.                            *)
(***************************************************************************)
EXTENDS Integers, Sequences, FiniteSets, TLC

\* ------------------------------------------------------------- bounds
NumClients == 2     \* concurrent ainsert / aquery tasks of a run
NumCallers == 3     \* concurrent callers of the wrapped functions of a run
MaxAsync == 2       \* largest configured *_max_async
MaxChunkTokens == 2 \* largest configured chunk_token_size
MaxLen == 2         \* longest text, in characters
MaxDocs == 2        \* document ids generated in one run

Clients == 1..NumClients
Callers == 1..NumCallers
Tasks == Clients \cup Callers
Queries == {<<"a">>, <<" ", "a">>}
Funcs == {"embedding_func", "best_model_func", "cheap_model_func"}
Stores == {"text_chunks_vdb", "full_docs", "text_chunks"}
Chars == {" ", "a"}
Texts == UNION {[1..n -> Chars] : n \in 0..MaxLen}
Completions == {"r1", "r2"}

\* ------------------------------------------------------------ helpers
Range(s) == {s[i] : i \in 1..Len(s)}

Min(S) == CHOOSE x \in S : \A y \in S : x <= y

Max(S) == CHOOSE x \in S : \A y \in S : x >= y

\* str.strip(): the text without its leading and trailing whitespace
strip(c) ==
    LET idx == {i \in 1..Len(c) : c[i] # " "}
    IN  IF idx = {} THEN <<>> ELSE SubSeq(c, Min(idx), Max(idx))

\* dict.update / a store's upsert: the keys of new replace or extend old
update(old, new) ==
    [k \in (DOMAIN old) \cup (DOMAIN new) |->
        IF k \in DOMAIN new THEN new[k] ELSE old[k]]

\* a store's upsert(mapping of id -> record)
upsert(store, data) == update(store, data)

\* generate_id(prefix): an id no other call of the run returns; n counts the calls
generate_id(prefix, n) == <<prefix, n>>

\* the tokenizer: one token per character
encode_string(content) == content

decode_tokens(tokens) == tokens

\* chunking_by_token_size: windows of max_token_size tokens whose starts are
\* max_token_size - overlap_token_size apart; no window for the empty text
chunking_by_token_size(content, overlap_token_size, max_token_size) ==
    LET tokens == encode_string(content)
        stride == max_token_size - overlap_token_size
        n      == (Len(tokens) + stride - 1) \div stride
        start(i) == (i - 1) * stride
        stop(i)  == Min({start(i) + max_token_size, Len(tokens)})
    IN  [i \in 1..n |->
            [content |-> decode_tokens(SubSeq(tokens, start(i) + 1, stop(i))),
             tokens |-> stop(i) - start(i),
             chunk_order_index |-> i - 1]]

\* ------------------------------------------------------------- state
VARIABLES
    chunk_token_size,           \* configuration fields
    chunk_overlap_token_size,
    embedding_func_max_async,
    best_model_max_async,
    cheap_model_max_async,
    current_size,               \* slots held of each wrapped function
    full_docs,                  \* the three stores, id -> record
    text_chunks,
    text_chunks_vdb,
    doc_ids,                    \* generate_id calls made so far, per prefix
    chunk_ids,
    task                        \* the tasks: entry point, position, locals

config == <<chunk_token_size, chunk_overlap_token_size, embedding_func_max_async,
            best_model_max_async, cheap_model_max_async>>
stores == <<full_docs, text_chunks, text_chunks_vdb>>
vars == <<config, current_size, stores, doc_ids, chunk_ids, task>>

NoInput == [is_str |-> FALSE, val |-> <<>>]

IdleTask ==
    [op |-> "none", pc |-> "idle",
     input |-> NoInput, query |-> <<>>,
     fn |-> "none", calls |-> <<>>, ret |-> "none",
     step |-> 0,
     strings |-> <<>>, doc_keys |-> <<>>, chunk_src |-> <<>>,
     new_docs |-> <<>>, inserting_chunks |-> <<>>,
     chunks |-> <<>>, chunks_bound |-> FALSE,
     events |-> <<>>,
     result |-> "none", error |-> "none"]

\* GraphRAG.__post_init__, lines 40-66: the functions wrapped, the stores
\* constructed, no task running yet
post_init ==
    /\ current_size = [f \in Funcs |-> 0]
    /\ full_docs = <<>>
    /\ text_chunks = <<>>
    /\ text_chunks_vdb = <<>>
    /\ doc_ids = 0
    /\ chunk_ids = 0
    /\ task = [t \in Tasks |-> IdleTask]

\* a GraphRAG whose three limits are equal, as the defaults of lines 30-35 are
Init ==
    /\ chunk_token_size \in 1..MaxChunkTokens
    /\ chunk_overlap_token_size \in 0..(chunk_token_size - 1)
    /\ embedding_func_max_async \in 1..MaxAsync
    /\ best_model_max_async = embedding_func_max_async
    /\ cheap_model_max_async = embedding_func_max_async
    /\ post_init

\* a GraphRAG with any three limits
InitLimiter ==
    /\ chunk_token_size = MaxChunkTokens
    /\ chunk_overlap_token_size = 0
    /\ embedding_func_max_async \in 1..MaxAsync
    /\ best_model_max_async \in 1..MaxAsync
    /\ cheap_model_max_async \in 1..MaxAsync
    /\ post_init

\* mutant: best_model_func wrapped with the limit of cheap_model_func
max_size_copied(f) ==
    CASE f = "embedding_func" -> embedding_func_max_async
      [] f = "best_model_func" -> cheap_model_max_async
      [] f = "cheap_model_func" -> cheap_model_max_async

\* __post_init__ lines 41-49: the limit each function is wrapped with
max_size(f) ==
    CASE f = "embedding_func" -> embedding_func_max_async
      [] f = "best_model_func" -> best_model_max_async
      [] f = "cheap_model_func" -> cheap_model_max_async

\* ------------------------------------------------ concurrency limiter
\* limit_async_func_call(max_size)(func): a call enters the body of func when
\* fewer than max_size calls are in it, and waits otherwise
limiter_acquire(t) ==
    /\ task[t].pc = "wait"
    /\ current_size[task[t].fn] < max_size(task[t].fn)
    /\ current_size' = [current_size EXCEPT ![task[t].fn] = @ + 1]
    /\ task' = [task EXCEPT ![t].pc = "body"]
    /\ UNCHANGED <<config, stores, doc_ids, chunk_ids>>

\* the slots held once a call has left the body of func; failed tells how
slots_after_exit(held, failed) == held - 1

\* the body of func is left, by return or by exception: the slot is released
limiter_release(f, failed) ==
    current_size' = [current_size EXCEPT ![f] = slots_after_exit(@, failed)]

call_of(f, arg) == [fn |-> f, arg |-> arg]

\* --------------------------------------------------------------- aquery
\* mutant: the query is trimmed before the model sees it
aquery_arg_stripped(query) == strip(query)

\* line 69: the argument best_model_func is called with
aquery_arg(query) == query

\* aquery(query), line 69: call the wrapped best_model_func and await it
aquery_call(t, query) ==
    /\ task[t].pc = "idle"
    /\ task' = [task EXCEPT ![t].op = "aquery", ![t].query = query,
                            ![t].fn = "best_model_func",
                            ![t].calls = Append(@, call_of("best_model_func",
                                                           aquery_arg(query))),
                            ![t].pc = "wait"]
    /\ UNCHANGED <<config, current_size, stores, doc_ids, chunk_ids>>

\* line 69: what aquery returns when the awaited call returned r
aquery_result(r) == r

\* line 69: the model call returns, and aquery returns
aquery_return(t) ==
    /\ task[t].op = "aquery"
    /\ task[t].pc = "body"
    /\ limiter_release(task[t].fn, FALSE)
    /\ \E r \in Completions :
          task' = [task EXCEPT ![t].pc = "done", ![t].ret = r,
                               ![t].result = aquery_result(r)]
    /\ UNCHANGED <<config, stores, doc_ids, chunk_ids>>

\* mutant: aquery catches the failure and returns None
aquery_on_error_swallowed(l) == [l EXCEPT !.pc = "done", !.result = "None"]

\* line 69: how aquery ends when the awaited call raised: nothing handles it
aquery_on_error(l) == [l EXCEPT !.pc = "failed", !.error = "ModelError"]

\* line 69: the model call fails
aquery_raise(t) ==
    /\ task[t].op = "aquery"
    /\ task[t].pc = "body"
    /\ limiter_release(task[t].fn, TRUE)
    /\ task' = [task EXCEPT ![t] = aquery_on_error([@ EXCEPT !.ret = "ModelError"])]
    /\ UNCHANGED <<config, stores, doc_ids, chunk_ids>>

\* -------------------------------------------------------------- ainsert
\* mutant: the string is not wrapped, the loop runs over its characters
as_list_unwrapped(input) ==
    IF input.is_str THEN [i \in 1..Len(input.val) |-> <<input.val[i]>>]
    ELSE input.val

\* lines 75-76: a single string is one document
as_list(input) == IF input.is_str THEN <<input.val>> ELSE input.val

\* a number for a text, one per text
text_hash(c) ==
    LET H[i \in 0..Len(c)] ==
            IF i = 0 THEN 1 ELSE 3 * H[i - 1] + (IF c[i] = " " THEN 1 ELSE 2)
    IN  H[Len(c)]

\* mutant: the key of a document is computed from its content
doc_key_by_content(c, n) == <<"doc-", text_hash(strip(c))>>

\* line 78: the key of a new document; n is the generate_id call that makes it
doc_key(c, n) == generate_id("doc-", n)

\* line 78: the value of a new document
doc_value(c) == [content |-> strip(c)]

\* the keys of a dict in insertion order: a key set again keeps its place
dict_keys(keys) ==
    LET F[i \in 0..Len(keys)] ==
            IF i = 0 THEN <<>>
            ELSE IF keys[i] \in Range(F[i - 1]) THEN F[i - 1]
                 ELSE Append(F[i - 1], keys[i])
    IN  F[Len(keys)]

\* lines 77-80: the dict comprehension over the input strings
make_new_docs(strings, keys) ==
    [k \in Range(keys) |->
        doc_value(strings[Max({i \in 1..Len(strings) : keys[i] = k})])]

\* line 85: a chunk record, tagged with the document it comes from
chunk_record(dp, key) ==
    [content |-> dp.content, tokens |-> dp.tokens,
     chunk_order_index |-> dp.chunk_order_index, full_doc_id |-> key]

\* mutant: every chunk is tagged with the key of the last document
doc_chunks_last_key(new_docs, order, p, first) ==
    LET pieces == chunking_by_token_size(new_docs[order[p]].content,
                      chunk_overlap_token_size, chunk_token_size)
    IN  [k \in {generate_id("chunk-", first + j) : j \in 1..Len(pieces)} |->
            chunk_record(pieces[k[2] - first], order[Len(order)])]

\* lines 84-92: the chunks of the p-th document of new_docs.items();
\* first is the number of generate_id("chunk-") calls made before
doc_chunks(new_docs, order, p, first) ==
    LET pieces == chunking_by_token_size(new_docs[order[p]].content,
                      chunk_overlap_token_size, chunk_token_size)
    IN  [k \in {generate_id("chunk-", first + j) : j \in 1..Len(pieces)} |->
            chunk_record(pieces[k[2] - first], order[p])]

\* lines 82-93: the loop over new_docs.items(); the state after p documents
chunk_loop(new_docs, order, first) ==
    LET L[p \in 0..Len(order)] ==
            IF p = 0
            THEN [inserting_chunks |-> <<>>, chunks |-> <<>>,
                  chunks_bound |-> FALSE, made |-> 0, src |-> <<>>]
            ELSE LET c == doc_chunks(new_docs, order, p, first + L[p - 1].made)
                 IN  [inserting_chunks |-> update(L[p - 1].inserting_chunks, c),
                      chunks |-> c,
                      chunks_bound |-> TRUE,
                      made |-> L[p - 1].made + Cardinality(DOMAIN c),
                      src |-> update(L[p - 1].src, [k \in DOMAIN c |-> p])]
    IN  L[Len(order)]

\* mutant: the documents are upserted before the vectors
ainsert_order_docs_first == <<"full_docs", "text_chunks_vdb", "text_chunks">>

\* lines 95, 97, 98: the stores upserted, in this order
ainsert_order == <<"text_chunks_vdb", "full_docs", "text_chunks">>

\* mutant: the key-value chunk store is given the accumulated chunks
upsert_arg_accumulated(l, store) ==
    CASE store = "text_chunks_vdb" -> l.inserting_chunks
      [] store = "full_docs" -> l.new_docs
      [] store = "text_chunks" -> l.inserting_chunks

\* lines 95, 97, 98: the local each upsert is given
upsert_arg(l, store) ==
    CASE store = "text_chunks_vdb" -> l.inserting_chunks
      [] store = "full_docs" -> l.new_docs
      [] store = "text_chunks" -> l.chunks

\* a local read before any assignment to it raises UnboundLocalError
arg_bound(l, store) == (store = "text_chunks") => l.chunks_bound

event(ev, store, data) == [ev |-> ev, store |-> store, data |-> data]

\* lines 95, 97, 98: evaluate the argument of the k-th upsert and call it; the
\* vector store first embeds, through the wrapped embedding_func
upsert_call(l, k) ==
    LET store == ainsert_order[k]
    IN  IF ~arg_bound(l, store)
        THEN [l EXCEPT !.pc = "failed", !.error = "UnboundLocalError"]
        ELSE [l EXCEPT
                !.step = k,
                !.events = Append(@, event("start", store, upsert_arg(l, store))),
                !.fn = IF store = "text_chunks_vdb" THEN "embedding_func" ELSE @,
                !.calls = IF store = "text_chunks_vdb"
                          THEN Append(@, call_of("embedding_func", <<>>)) ELSE @,
                !.pc = IF store = "text_chunks_vdb" THEN "wait" ELSE "write"]

\* ainsert(string_or_strings), lines 75-95: no await before the first upsert
ainsert_call(t, input) ==
    LET strings  == as_list(input)
        keys     == [i \in 1..Len(strings) |-> doc_key(strings[i], doc_ids + i)]
        new_docs == make_new_docs(strings, keys)
        order    == dict_keys(keys)
        loop     == chunk_loop(new_docs, order, chunk_ids)
        chunked  == [task[t] EXCEPT
                        !.op = "ainsert", !.input = input,
                        !.strings = strings, !.doc_keys = keys,
                        !.chunk_src = loop.src,
                        !.new_docs = new_docs,
                        !.inserting_chunks = loop.inserting_chunks,
                        !.chunks = loop.chunks,
                        !.chunks_bound = loop.chunks_bound,
                        !.events = <<event("chunked", "none", <<>>)>>]
    IN  /\ task[t].pc = "idle"
        /\ doc_ids + Len(strings) <= MaxDocs
        /\ doc_ids' = doc_ids + Len(strings)
        /\ chunk_ids' = chunk_ids + loop.made
        /\ task' = [task EXCEPT ![t] = upsert_call(chunked, 1)]
        /\ UNCHANGED <<config, current_size, stores>>

\* the embedding call of the vector store's upsert returns: the store writes
embed_return(t) ==
    /\ task[t].op = "ainsert"
    /\ task[t].pc = "body"
    /\ limiter_release(task[t].fn, FALSE)
    /\ task' = [task EXCEPT ![t].pc = "write"]
    /\ UNCHANGED <<config, stores, doc_ids, chunk_ids>>

\* the embedding call fails: the upsert fails, and nothing in ainsert handles it
embed_raise(t) ==
    /\ task[t].op = "ainsert"
    /\ task[t].pc = "body"
    /\ limiter_release(task[t].fn, TRUE)
    /\ task' = [task EXCEPT
            ![t].events = Append(@, event("fail", ainsert_order[task[t].step], <<>>)),
            ![t].pc = "failed", ![t].error = "EmbeddingError"]
    /\ UNCHANGED <<config, stores, doc_ids, chunk_ids>>

write(store, data) ==
    /\ full_docs' = IF store = "full_docs" THEN upsert(full_docs, data) ELSE full_docs
    /\ text_chunks' = IF store = "text_chunks" THEN upsert(text_chunks, data)
                      ELSE text_chunks
    /\ text_chunks_vdb' = IF store = "text_chunks_vdb"
                          THEN upsert(text_chunks_vdb, data) ELSE text_chunks_vdb

\* lines 95-101: the awaited upsert completes and ainsert runs on to its next
\* await; after the last upsert it logs and returns None
upsert_end(t) ==
    LET l == task[t]
        store == ainsert_order[l.step]
        ended == [l EXCEPT !.events =
                     Append(@, event("end", store, upsert_arg(l, store)))]
    IN  /\ l.op = "ainsert"
        /\ l.pc = "write"
        /\ write(store, upsert_arg(l, store))
        /\ task' = [task EXCEPT ![t] =
                IF l.step = Len(ainsert_order)
                THEN [ended EXCEPT !.pc = "done", !.result = "None"]
                ELSE upsert_call(ended, l.step + 1)]
        /\ UNCHANGED <<config, current_size, doc_ids, chunk_ids>>

\* the records a store has written when its upsert fails after n of them: it
\* writes the mapping in the order of its keys
written(data, n) ==
    [k \in {j \in DOMAIN data :
               Cardinality({i \in DOMAIN data : i[2] < j[2]}) < n} |-> data[k]]

\* mutant: ainsert catches the store's failure and goes on to the next upsert
upsert_fail_continue(t) ==
    LET l == task[t]
        store == ainsert_order[l.step]
        data == upsert_arg(l, store)
        noted == [l EXCEPT !.events = Append(@, event("fail", store, <<>>))]
    IN  /\ l.op = "ainsert"
        /\ l.pc = "write"
        /\ \E n \in 0..Max({0, Cardinality(DOMAIN data) - 1}) :
              write(store, written(data, n))
        /\ task' = [task EXCEPT ![t] =
                IF l.step = Len(ainsert_order)
                THEN [noted EXCEPT !.pc = "done", !.result = "None"]
                ELSE upsert_call(noted, l.step + 1)]
        /\ UNCHANGED <<config, current_size, doc_ids, chunk_ids>>

\* lines 95-98: the awaited upsert fails, having written none or a part of
\* its mapping; nothing catches it and ainsert ends with the store's error
upsert_fail(t) ==
    LET l == task[t]
        store == ainsert_order[l.step]
        data == upsert_arg(l, store)
    IN  /\ l.op = "ainsert"
        /\ l.pc = "write"
        /\ \E n \in 0..Max({0, Cardinality(DOMAIN data) - 1}) :
              write(store, written(data, n))
        /\ task' = [task EXCEPT
                ![t].events = Append(@, event("fail", store, <<>>)),
                ![t].pc = "failed", ![t].error = "StoreError"]
        /\ UNCHANGED <<config, current_size, doc_ids, chunk_ids>>

\* ------------------------------------------- direct calls of the wrapped
\* a caller of the wrapped embedding_func or cheap_model_func attribute of the
\* GraphRAG object (best_model_func is called through aquery)
call(t, f) ==
    /\ task[t].pc = "idle"
    /\ task' = [task EXCEPT ![t].op = "call", ![t].fn = f,
                            ![t].calls = Append(@, call_of(f, <<>>)),
                            ![t].pc = "wait"]
    /\ UNCHANGED <<config, current_size, stores, doc_ids, chunk_ids>>

call_return(t) ==
    /\ task[t].op = "call"
    /\ task[t].pc = "body"
    /\ limiter_release(task[t].fn, FALSE)
    /\ task' = [task EXCEPT ![t].pc = "done", ![t].ret = "returned",
                            ![t].result = "returned"]
    /\ UNCHANGED <<config, stores, doc_ids, chunk_ids>>

call_raise(t) ==
    /\ task[t].op = "call"
    /\ task[t].pc = "body"
    /\ limiter_release(task[t].fn, TRUE)
    /\ task' = [task EXCEPT ![t].pc = "failed", ![t].ret = "CallError",
                            ![t].error = "CallError"]
    /\ UNCHANGED <<config, stores, doc_ids, chunk_ids>>

\* ------------------------------------------------------- specifications
TextLists == UNION {[1..n -> Texts] : n \in 0..MaxDocs}

\* tasks are numbered in the order they start
next_task(t, among) == \A u \in among : u < t => task[u].op # "none"

insert(t) ==
    /\ t \in Clients
    /\ next_task(t, Clients)
    /\ \/ \E c \in Texts : ainsert_call(t, [is_str |-> TRUE, val |-> c])
       \/ \E s \in TextLists : ainsert_call(t, [is_str |-> FALSE, val |-> s])

query(t) ==
    /\ t \in Clients
    /\ next_task(t, Clients)
    /\ \E q \in Queries : aquery_call(t, q)

\* the query text plays no part in the limiter: one text stands for all
caller_query(t) ==
    /\ t \in Callers
    /\ next_task(t, Callers)
    /\ \E q \in {<<" ", "a">>} : aquery_call(t, q)

direct(t) ==
    /\ t \in Callers
    /\ next_task(t, Callers)
    /\ \E f \in Funcs \ {"best_model_func"} : call(t, f)

\* the orchestrator's two entry points, run as concurrent tasks
Next ==
    \E t \in Tasks :
        \/ insert(t)
        \/ limiter_acquire(t)
        \/ embed_return(t)
        \/ embed_raise(t)
        \/ upsert_end(t)
        \/ upsert_fail(t)
        \/ query(t)
        \/ aquery_return(t)
        \/ aquery_raise(t)

Spec == Init /\ [][Next]_vars

\* concurrent callers of the three wrapped functions
NextLimiter ==
    \E t \in Tasks :
        \/ direct(t)
        \/ caller_query(t)
        \/ limiter_acquire(t)
        \/ call_return(t)
        \/ call_raise(t)
        \/ aquery_return(t)
        \/ aquery_raise(t)

SpecLimiter == InitLimiter /\ [][NextLimiter]_vars

\* --------------------------------------------------------------- claims
running(f) == Cardinality({t \in Tasks : task[t].pc = "body" /\ task[t].fn = f})

waiting(f) == {t \in Tasks : task[t].pc = "wait" /\ task[t].fn = f}

\* the limit the configuration gives each function
configured(f) ==
    CASE f = "embedding_func" -> embedding_func_max_async
      [] f = "best_model_func" -> best_model_max_async
      [] f = "cheap_model_func" -> cheap_model_max_async

Inserts == {t \in Tasks : task[t].op = "ainsert"}

AQueries == {t \in Tasks : task[t].op = "aquery"}

\* the events of task t of kind ev on store, in order
events_of(t, ev, store) ==
    SelectSeq(task[t].events, LAMBDA e : e.ev = ev /\ e.store = store)

\* the positions of such events
at(t, ev, store) ==
    {i \in 1..Len(task[t].events) :
        task[t].events[i].ev = ev /\ task[t].events[i].store = store}

the_store(store) ==
    CASE store = "text_chunks_vdb" -> text_chunks_vdb
      [] store = "full_docs" -> full_docs
      [] store = "text_chunks" -> text_chunks

\* the chunks the chunker makes of the i-th input string
pieces_of(t, i) ==
    chunking_by_token_size(strip(task[t].strings[i]),
                           chunk_overlap_token_size, chunk_token_size)

chunk_count(t) ==
    LET S[i \in 0..Len(task[t].strings)] ==
            IF i = 0 THEN 0 ELSE S[i - 1] + Len(pieces_of(t, i))
    IN  S[Len(task[t].strings)]

collaborator_failed(t) == task[t].error \in {"EmbeddingError", "StoreError"}

\* C1: for each of the three wrapped functions the number of calls inside its
\* body never exceeds the limit configured for that function
C1_BodiesWithinLimit ==
    /\ running("embedding_func") <= embedding_func_max_async
    /\ running("best_model_func") <= best_model_max_async
    /\ running("cheap_model_func") <= cheap_model_max_async

\* more callers than slots: the limit of 2 is reached and a third caller waits
C1_Witness ==
    \E f \in Funcs :
        /\ configured(f) = 2
        /\ running(f) = 2
        /\ waiting(f) # {}

\* C2: a failure of the wrapped body reaches the caller, and no slot stays
\* held by a call that has left the body: the slots held are the calls in the
\* body (none once all calls completed), and a waiting call can enter as long
\* as fewer than N are in the body
C2_FailureReleasesSlot ==
    /\ \A t \in Tasks :
          task[t].ret \in {"ModelError", "CallError"} =>
              /\ task[t].pc = "failed"
              /\ task[t].error = task[t].ret
    /\ \A f \in Funcs : current_size[f] = running(f)
    /\ \A t \in Tasks :
          (task[t].pc = "wait" /\ running(task[t].fn) < configured(task[t].fn))
              => ENABLED limiter_acquire(t)

\* after a failed aquery, N = 2 further calls of best_model_func run together
C2_Witness ==
    \E t \in AQueries :
        /\ task[t].pc = "failed"
        /\ task[t].error = "ModelError"
        /\ best_model_max_async = 2
        /\ running("best_model_func") = 2

\* C3: in every ainsert call an upsert of full_docs starts only after the
\* vector store's upsert ended, an upsert of text_chunks only after that of
\* full_docs ended, and every upsert only after the chunking
C3_UpsertOrder ==
    \A t \in Inserts :
        \A i \in 1..Len(task[t].events) :
            LET e == task[t].events[i]
                before(ev, store) == \E j \in at(t, ev, store) : j < i
            IN  e.ev = "start" =>
                    /\ before("chunked", "none")
                    /\ e.store = "full_docs" => before("end", "text_chunks_vdb")
                    /\ e.store = "text_chunks" =>
                          /\ before("end", "full_docs")
                          /\ before("end", "text_chunks_vdb")

\* an ainsert of two documents has made its three upserts
C3_Witness ==
    \E t \in Inserts :
        /\ task[t].pc = "done"
        /\ Len(task[t].strings) = 2
        /\ Len(task[t].events) = 7

\* the record is a chunk of the p-th input string of task t, tagged with the
\* key of that string's document
tagged_from(t, k, rec) ==
    LET p == task[t].chunk_src[k]
    IN  /\ rec.full_doc_id = task[t].doc_keys[p]
        /\ \E j \in 1..Len(pieces_of(t, p)) :
              /\ pieces_of(t, p)[j].content = rec.content
              /\ pieces_of(t, p)[j].chunk_order_index = rec.chunk_order_index
        /\ rec.full_doc_id \in DOMAIN task[t].new_docs
        /\ \A i \in at(t, "start", "full_docs") :
              rec.full_doc_id \in DOMAIN task[t].events[i].data

\* C4: every chunk record an ainsert call gives to the vector store or to the
\* key-value chunk store, and every record those stores hold, carries the id of
\* the document it was chunked from, a key of the documents the call upserts
C4_ChunkTaggedWithItsDocument ==
    /\ \A t \in Inserts :
          \A i \in at(t, "start", "text_chunks_vdb") \cup at(t, "start", "text_chunks") :
              \A k \in DOMAIN task[t].events[i].data :
                  tagged_from(t, k, task[t].events[i].data[k])
    /\ \A k \in DOMAIN text_chunks_vdb :
          \E t \in Inserts : /\ k \in DOMAIN task[t].chunk_src
                             /\ tagged_from(t, k, text_chunks_vdb[k])
    /\ \A k \in DOMAIN text_chunks :
          \E t \in Inserts : /\ k \in DOMAIN task[t].chunk_src
                             /\ tagged_from(t, k, text_chunks[k])

\* two documents of one call both have chunks in the vector store
C4_Witness ==
    \E t \in Inserts :
        /\ task[t].pc = "done"
        /\ Len(task[t].strings) = 2
        /\ \A p \in 1..2 :
              \E k \in DOMAIN text_chunks_vdb :
                  /\ k \in DOMAIN task[t].chunk_src
                  /\ text_chunks_vdb[k].full_doc_id = task[t].doc_keys[p]

\* C5: called with two or more documents, ainsert gives the vector store the
\* chunks of all of them and the key-value chunk store those of the last one
C5_KvGetsLastDocumentOnly ==
    \A t \in Inserts :
        Len(task[t].strings) >= 2 =>
            /\ \A i \in at(t, "start", "text_chunks_vdb") :
                  LET data == task[t].events[i].data
                  IN  /\ Cardinality(DOMAIN data) = chunk_count(t)
                      /\ \A p \in 1..Len(task[t].strings) :
                            Cardinality({k \in DOMAIN data : task[t].chunk_src[k] = p})
                                = Len(pieces_of(t, p))
            /\ \A i \in at(t, "start", "text_chunks") :
                  LET data == task[t].events[i].data
                      last == Len(task[t].strings)
                  IN  /\ DOMAIN data = {k \in DOMAIN task[t].inserting_chunks :
                                           task[t].chunk_src[k] = last}
                      /\ Cardinality(DOMAIN data) = Len(pieces_of(t, last))
                      /\ \A k \in DOMAIN data : data[k] = task[t].inserting_chunks[k]

\* two documents with chunks: the stores differ by the first one's chunks
C5_Witness ==
    \E t \in Inserts :
        /\ task[t].pc = "done"
        /\ Len(task[t].strings) = 2
        /\ Len(pieces_of(t, 1)) > 0
        /\ Len(pieces_of(t, 2)) > 0
        /\ \E k \in DOMAIN text_chunks_vdb :
              k \in DOMAIN task[t].chunk_src /\ k \notin DOMAIN text_chunks

\* what C6 says of every single-string call, but for the number of chunks
single_string(t, one_chunk) ==
    /\ \A i \in at(t, "start", "full_docs") :
          Cardinality(DOMAIN task[t].events[i].data) = 1
    /\ \A i \in at(t, "start", "text_chunks_vdb") :
          one_chunk => Cardinality(DOMAIN task[t].events[i].data) = 1
    /\ \A i \in at(t, "start", "text_chunks") :
          \A j \in at(t, "start", "text_chunks_vdb") :
              task[t].events[i].data = task[t].events[j].data
    /\ task[t].pc = "done" =>
          /\ at(t, "start", "full_docs") # {}
          /\ at(t, "start", "text_chunks") # {}

\* C6 as stated: called with a single string, ainsert upserts one document
\* and the same chunks to both chunk stores, exactly one chunk when the string
\* fits in one chunk
C6_AsStated ==
    \A t \in Inserts :
        task[t].input.is_str =>
            single_string(t, Len(encode_string(task[t].input.val)) <= chunk_token_size)

\* C6 amended: exactly one chunk when the trimmed string is not empty and no
\* longer than chunk_token_size - chunk_overlap_token_size tokens
C6_SingleString ==
    \A t \in Inserts :
        task[t].input.is_str =>
            single_string(t,
                LET n == Len(encode_string(strip(task[t].input.val)))
                IN  0 < n /\ n <= chunk_token_size - chunk_overlap_token_size)

\* a single short string is in both chunk stores, as one chunk
C6_Witness ==
    \E t \in Inserts :
        /\ task[t].input.is_str
        /\ task[t].pc = "done"
        /\ Cardinality(DOMAIN task[t].inserting_chunks) = 1
        /\ \A k \in DOMAIN task[t].inserting_chunks :
              k \in DOMAIN text_chunks /\ k \in DOMAIN text_chunks_vdb
        /\ DOMAIN task[t].new_docs \subseteq DOMAIN full_docs

\* the documents of the run whose upsert to full_docs ended: call and position
stored_docs ==
    {<<t, i>> \in Tasks \X (1..MaxDocs + 1) :
        /\ t \in Inserts
        /\ i <= Len(task[t].strings)
        /\ at(t, "end", "full_docs") # {}}

\* C7: two documents inserted, in one call or in two, have two ids and two
\* records in full_docs, whether or not their text is the same
C7_FreshIdPerDocument ==
    /\ \A t \in Inserts :
          Cardinality(DOMAIN task[t].new_docs) = Len(task[t].strings)
    /\ \A t \in Inserts : \A u \in Inserts :
          \A i \in 1..Len(task[t].strings) : \A j \in 1..Len(task[u].strings) :
              <<t, i>> # <<u, j>> => task[t].doc_keys[i] # task[u].doc_keys[j]
    /\ \A d \in stored_docs : task[d[1]].doc_keys[d[2]] \in DOMAIN full_docs
    /\ Cardinality(DOMAIN full_docs) >= Cardinality(stored_docs)

\* the same text inserted by two calls: two records
C7_Witness ==
    \E t \in Inserts : \E u \in Inserts :
        /\ t # u
        /\ task[t].pc = "done"
        /\ task[u].pc = "done"
        /\ Len(task[t].strings) = 1
        /\ task[t].strings = task[u].strings
        /\ Cardinality(DOMAIN full_docs) = 2

\* the store holds the mapping
holds(store, data) ==
    \A k \in DOMAIN data : k \in DOMAIN the_store(store) /\ the_store(store)[k] = data[k]

\* C8: a failing upsert is the last thing an ainsert call does: the call ends
\* with that failure, each upsert was issued at most once and only those up
\* to the failing one, what the earlier upserts wrote stays written, and after
\* a failure of a key-value upsert the vector store has the call's chunks
\* while the key-value chunk store lacks some (all, when full_docs failed)
C8_FailureStopsAndKeeps ==
    \A t \in Inserts :
        /\ \A s \in Stores : Cardinality(at(t, "start", s)) <= 1
        /\ \A i \in at(t, "end", "text_chunks_vdb") \cup at(t, "end", "full_docs")
                    \cup at(t, "end", "text_chunks") :
              holds(task[t].events[i].store, task[t].events[i].data)
        /\ \A i \in 1..Len(task[t].events) :
              task[t].events[i].ev = "fail" =>
                  LET failing == task[t].events[i].store
                  IN  /\ i = Len(task[t].events)
                      /\ task[t].pc = "failed"
                      /\ collaborator_failed(t)
                      /\ failing = "text_chunks_vdb" =>
                            /\ at(t, "start", "full_docs") = {}
                            /\ at(t, "start", "text_chunks") = {}
                      /\ failing = "full_docs" =>
                            /\ at(t, "start", "text_chunks") = {}
                            /\ holds("text_chunks_vdb", task[t].inserting_chunks)
                            /\ ~holds("full_docs", task[t].new_docs)
                                  \/ task[t].new_docs = <<>>
                            /\ \A k \in DOMAIN task[t].chunks : k \notin DOMAIN text_chunks
                      /\ failing = "text_chunks" =>
                            /\ holds("text_chunks_vdb", task[t].inserting_chunks)
                            /\ holds("full_docs", task[t].new_docs)
                            /\ ~holds("text_chunks", task[t].chunks)
                                  \/ task[t].chunks = <<>>

\* the upsert of full_docs failed: the vectors are stored, the chunk records not
C8_Witness ==
    \E t \in Inserts :
        /\ task[t].pc = "failed"
        /\ task[t].error = "StoreError"
        /\ ainsert_order[task[t].step] = "full_docs"
        /\ task[t].inserting_chunks # <<>>
        /\ holds("text_chunks_vdb", task[t].inserting_chunks)
        /\ \A k \in DOMAIN task[t].inserting_chunks : k \notin DOMAIN text_chunks

\* what C9 says of the state of an aquery call
aquery_state(t) ==
    /\ task[t].calls = <<call_of("best_model_func", task[t].query)>>
    /\ task[t].events = <<>>
    /\ task[t].pc = "done" => task[t].result = task[t].ret /\ task[t].ret \in Completions

\* C9: aquery(q) calls the wrapped best_model_func once, with q as given, and
\* returns what the call returned; no step of it issues an upsert or changes
\* the contents of the three stores
C9_QueryPassesThrough ==
    /\ [](\A t \in AQueries : aquery_state(t))
    /\ [][\A t \in Tasks :
             (task'[t].op = "aquery" /\ task'[t] # task[t]) => UNCHANGED stores]_vars

\* a query with leading whitespace returned r2 while the stores hold documents
C9_Witness ==
    \E t \in AQueries :
        /\ task[t].pc = "done"
        /\ task[t].query = <<" ", "a">>
        /\ task[t].result = "r2"
        /\ DOMAIN full_docs # {}
        /\ DOMAIN text_chunks_vdb # {}

\* C10 as stated: an ainsert call in which no collaborator fails, whatever its
\* input, ends by returning None having issued each of the three upserts once
C10_AsStated ==
    \A t \in Inserts :
        (task[t].pc \in {"done", "failed"} /\ ~collaborator_failed(t)) =>
            /\ task[t].pc = "done"
            /\ task[t].result = "None"
            /\ \A s \in Stores : Cardinality(at(t, "start", s)) = 1

====
